---- MODULE Spec2Model ----
(***************************************************************************)
(* Model of olympics_nhl_points.py: the name normalizer, the retrying      *)
(* fetch helper, the per-nation stats collector, the roster directory      *)
(* builder, the per-franchise aggregation, the ranking and the report.     *)
(*                                                                         *)
(* A name is a sequence of characters; a character is a one-element token  *)
(* such as "a", "A", " ".  "a^" and "A^" stand for the precomposed         *)
(* accented letters (U+00E1, U+00C1 and the like), "^" for a combining     *)
(* mark of category Mn (U+0301), "~" for a whitespace character other than *)
(* the space (tab, no-break space).                                        *)
(***************************************************************************)
EXTENDS Integers, Sequences, FiniteSets, TLC

VARIABLES
    pc,                 \* position of main(): collect, rosters, aggregate, report, done, crashed
    country_idx,        \* index into olympic_countries of the nation being collected
    all_player_stats,   \* dict name_key -> {name, goals, assists}, in insertion order
    nation_result,      \* history: what fetch_quanthockey_stats returned for each nation so far
    team_idx,           \* index into NHL_TEAMS of the roster being fetched
    player_to_team,     \* dict normalized name -> team abbreviation
    roster_result,      \* history: outcome of each roster fetch so far
    stats_idx,          \* position of the aggregation loop in all_player_stats
    nhl_team_stats,     \* defaultdict team -> {points, goals, assists, players}, in insertion order
    unmatched_players,  \* list of {name, goals, assists}
    sorted_teams,       \* the ranked sequence
    html,               \* what generate_html emitted: per team row, the player cards
    fw_pc,              \* position of fetch_with_retry: idle, loop, request, sleep, returned, raised
    fw_url,             \* the unit being fetched
    max_retries,        \* fetch_with_retry's parameter
    attempt,            \* loop variable of fetch_with_retry
    response,           \* what fetch_with_retry returned
    fw_exc,             \* the exception fetch_with_retry raised
    fw_log,             \* history: requests issued and sleeps taken by the current call
    nm_pc,              \* normalizer harness: input, varied, done
    nm_x,               \* a name
    nm_y,               \* a second name
    nm_kx,              \* normalize_name(nm_x)
    nm_ky,              \* normalize_name(nm_y)
    nm_kkx              \* normalize_name(normalize_name(nm_x))

mainVars == <<pc, country_idx, all_player_stats, nation_result, team_idx, player_to_team,
              roster_result, stats_idx, nhl_team_stats, unmatched_players, sorted_teams, html>>
fwVars == <<fw_pc, fw_url, max_retries, attempt, response, fw_exc, fw_log>>
nmVars == <<nm_pc, nm_x, nm_y, nm_kx, nm_ky, nm_kkx>>
vars == <<mainVars, fwVars, nmVars>>

None == "None"

(***************************************************************************)
(* Bounds                                                                  *)
(***************************************************************************)
MaxNameLen == 3        \* longest name the normalizer harness draws
MaxRows == 2           \* most table rows on one nation's page
MaxRetriesBound == 4   \* largest max_retries the retry harness draws

(***************************************************************************)
(* Characters                                                              *)
(***************************************************************************)
UpperChars == <<"A", "B", "C", "D", "E", "L", "O", "Y", "A^", "O^">>
LowerChars == <<"a", "b", "c", "d", "e", "l", "o", "y", "a^", "o^">>

\* unicodedata.normalize('NFD', c) of one character: a precomposed accented
\* letter decomposes into its base letter and the combining mark.
NFDChar(c) ==
    CASE c = "a^" -> <<"a", "^">>
      [] c = "A^" -> <<"A", "^">>
      [] c = "o^" -> <<"o", "^">>
      [] c = "O^" -> <<"O", "^">>
      [] OTHER -> <<c>>

\* unicodedata.category(c) = 'Mn'
IsMn(c) == c = "^"

\* str.lower() of one character
LowerChar(c) ==
    IF \E i \in 1..Len(UpperChars) : UpperChars[i] = c
    THEN LowerChars[CHOOSE i \in 1..Len(UpperChars) : UpperChars[i] = c]
    ELSE c

\* the characters str.split() treats as separators
IsSpace(c) == c \in {" ", "~"}

RECURSIVE NFD(_)
NFD(s) == IF s = <<>> THEN <<>> ELSE NFDChar(Head(s)) \o NFD(Tail(s))

RECURSIVE StripMn(_)
StripMn(s) ==
    IF s = <<>> THEN <<>>
    ELSE IF IsMn(Head(s)) THEN StripMn(Tail(s)) ELSE <<Head(s)>> \o StripMn(Tail(s))

RECURSIVE LowerStr(_)
LowerStr(s) == IF s = <<>> THEN <<>> ELSE <<LowerChar(Head(s))>> \o LowerStr(Tail(s))

\* str.split(): the maximal runs of non-whitespace characters, in order
RECURSIVE SplitFrom(_, _)
SplitFrom(s, cur) ==
    IF s = <<>> THEN (IF cur = <<>> THEN <<>> ELSE <<cur>>)
    ELSE IF IsSpace(Head(s))
         THEN (IF cur = <<>> THEN <<>> ELSE <<cur>>) \o SplitFrom(Tail(s), <<>>)
         ELSE SplitFrom(Tail(s), Append(cur, Head(s)))

Split(s) == SplitFrom(s, <<>>)

\* ' '.join(tokens)
RECURSIVE Join(_)
Join(toks) ==
    IF toks = <<>> THEN <<>>
    ELSE IF Len(toks) = 1 THEN Head(toks)
    ELSE Head(toks) \o <<" ">> \o Join(Tail(toks))

\* a normalizer that forgets str.lower()
normalize_name_nolower(name) == Join(Split(StripMn(NFD(name))))

\* a normalizer that also puts the tokens into a canonical order (the code does not)
AllChars == UpperChars \o LowerChars \o <<"^", " ", "~">>
CharRank(c) == CHOOSE i \in 1..Len(AllChars) : AllChars[i] = c

RECURSIVE TokenLeq(_, _)
TokenLeq(s, t) ==
    IF s = <<>> THEN TRUE
    ELSE IF t = <<>> THEN FALSE
    ELSE IF Head(s) = Head(t) THEN TokenLeq(Tail(s), Tail(t))
    ELSE CharRank(Head(s)) < CharRank(Head(t))

RECURSIVE InsertToken(_, _)
InsertToken(toks, t) ==
    IF toks = <<>> THEN <<t>>
    ELSE IF TokenLeq(t, Head(toks)) THEN <<t>> \o toks
    ELSE <<Head(toks)>> \o InsertToken(Tail(toks), t)

RECURSIVE SortTokens(_)
SortTokens(toks) ==
    IF toks = <<>> THEN <<>> ELSE InsertToken(SortTokens(Tail(toks)), Head(toks))

normalize_name_reordering(name) == Join(SortTokens(Split(LowerStr(StripMn(NFD(name))))))

normalize_name(name) == Join(Split(LowerStr(StripMn(NFD(name)))))

(***************************************************************************)
(* Input data: what the two sites can serve                                *)
(***************************************************************************)
olympic_countries == <<"canada", "usa">>
NHL_TEAMS == <<"ANA", "BOS", "BUF">>

AlBo == <<"A", "l", " ", "B", "o">>
ALBOaccent == <<"A", "L", " ", " ", "B", "O^">>
BOAl == <<"B", "O", " ", "A", "l">>
DeEd == <<"D", "e", " ", "E", "d">>
CyLo == <<"C", "y", " ", "L", "o">>

Row(n, g, a) == [name |-> n, goals_text |-> g, assists_text |-> a]

\* table rows a nation's page may hold (name cell, G cell, A cell)
RowPool(country) ==
    IF country = "canada"
    THEN {Row(AlBo, "1", "2"), Row(BOAl, "x", "1"), Row(CyLo, "0", "x")}
    ELSE {Row(ALBOaccent, "2", "0"), Row(DeEd, "2", "1"), Row(CyLo, "2", "1"),
          Row(<<>>, "1", "1")}

SeqsUpTo(S, n) == UNION {[1..k -> S] : k \in 0..n}

PagePool(country) ==
    {[kind |-> "page", rows |-> rs] : rs \in SeqsUpTo(RowPool(country), MaxRows)}

Player(f, l) == [firstName |-> f, lastName |-> l]
Roster(fw, df, gl) == [kind |-> "roster", forwards |-> fw, defensemen |-> df, goalies |-> gl]

\* roster documents the league API may serve for a team
RosterPool(team) ==
    CASE team = "ANA" ->
           {Roster(<<Player(<<"A", "l">>, <<"B", "o">>)>>, <<>>, <<>>),
            Roster(<<Player(<<"A", "l">>, <<"B", "o">>)>>, <<Player(<<"C", "y">>, <<"L", "o">>)>>, <<>>)}
      [] team = "BOS" ->
           {Roster(<<Player(<<"D", "e">>, <<"E", "d">>)>>, <<>>, <<>>),
            Roster(<<>>, <<Player(<<"D", "e">>, <<"E", "d">>)>>, <<Player(<<"A", "l">>, <<"B", "O^">>)>>)}
      [] OTHER ->
           {Roster(<<>>, <<Player(<<>>, <<"L", "o">>)>>, <<Player(<<"C", "y">>, <<"L", "o">>)>>)}

IsCountry(u) == \E i \in 1..Len(olympic_countries) : olympic_countries[i] = u
Urls == {olympic_countries[i] : i \in 1..Len(olympic_countries)}
            \cup {NHL_TEAMS[i] : i \in 1..Len(NHL_TEAMS)}

\* what a successful requests.get(url) can return
Responses(u) == IF IsCountry(u) THEN PagePool(u) ELSE RosterPool(u)

NoResponse == [kind |-> "none"]

\* the exceptions requests.get / raise_for_status can end with, by what catches them
ExcKinds == {"RequestException", "Exception"}

(***************************************************************************)
(* fetch_with_retry                                                        *)
(***************************************************************************)
BaseDelay == 2
QuanthockeyRetries == 2
RosterRetries == 2

WaitTimeConstant(a) == BaseDelay

\* wait_time = (attempt + 1) * 2
WaitTime(a) == (a + 1) * BaseDelay

\* if attempt < max_retries - 1
RetryGuard(a, n) == a < n - 1

\* the call: headers built, the loop not yet entered
FwEnter(u, n) ==
    /\ fw_pc' = "loop"
    /\ fw_url' = u
    /\ max_retries' = n
    /\ attempt' = 0
    /\ response' = NoResponse
    /\ fw_exc' = None
    /\ fw_log' = <<>>

\* the caller took the result: the call's locals are gone
FwLeave ==
    /\ fw_pc' = "idle"
    /\ fw_url' = None
    /\ max_retries' = 0
    /\ attempt' = 0
    /\ response' = NoResponse
    /\ fw_exc' = None
    /\ fw_log' = <<>>

\* for attempt in range(max_retries): the next iteration, or the loop is exhausted
\* and the function ends without a return statement
FwLoop ==
    /\ fw_pc = "loop"
    /\ IF attempt < max_retries
       THEN fw_pc' = "request" /\ UNCHANGED response
       ELSE fw_pc' = "returned" /\ response' = NoResponse
    /\ UNCHANGED <<fw_url, max_retries, attempt, fw_exc, fw_log>>
    /\ UNCHANGED <<mainVars, nmVars>>

\* requests.get and raise_for_status succeed: return response
FwRequestOk ==
    /\ fw_pc = "request"
    /\ \E r \in Responses(fw_url) : response' = r
    /\ fw_pc' = "returned"
    /\ fw_log' = Append(fw_log, [ev |-> "request", secs |-> 0])
    /\ UNCHANGED <<fw_url, max_retries, attempt, fw_exc>>
    /\ UNCHANGED <<mainVars, nmVars>>

\* requests.get or raise_for_status raises: the except clause
FwRequestFail ==
    /\ fw_pc = "request"
    /\ \E e \in ExcKinds :
          /\ fw_log' = Append(fw_log, [ev |-> "request", secs |-> 0])
          /\ IF RetryGuard(attempt, max_retries)
             THEN fw_pc' = "sleep" /\ fw_exc' = None
             ELSE fw_pc' = "raised" /\ fw_exc' = e
    /\ UNCHANGED <<fw_url, max_retries, attempt, response>>
    /\ UNCHANGED <<mainVars, nmVars>>

\* time.sleep(wait_time), then the next iteration
FwSleep ==
    /\ fw_pc = "sleep"
    /\ fw_log' = Append(fw_log, [ev |-> "sleep", secs |-> WaitTime(attempt)])
    /\ attempt' = attempt + 1
    /\ fw_pc' = "loop"
    /\ UNCHANGED <<fw_url, max_retries, response, fw_exc>>
    /\ UNCHANGED <<mainVars, nmVars>>

FwNext == FwLoop \/ FwRequestOk \/ FwRequestFail \/ FwSleep

(***************************************************************************)
(* The program's variables before main() runs, and the harness variables   *)
(* at rest                                                                 *)
(***************************************************************************)
MainIdle ==
    /\ pc = "idle"
    /\ country_idx = 1
    /\ all_player_stats = <<>>
    /\ nation_result = <<>>
    /\ team_idx = 1
    /\ player_to_team = [k \in {} |-> "None"]
    /\ roster_result = <<>>
    /\ stats_idx = 1
    /\ nhl_team_stats = <<>>
    /\ unmatched_players = <<>>
    /\ sorted_teams = <<>>
    /\ html = <<>>

FwIdle ==
    /\ fw_pc = "idle"
    /\ fw_url = None
    /\ max_retries = 0
    /\ attempt = 0
    /\ response = NoResponse
    /\ fw_exc = None
    /\ fw_log = <<>>

NmIdle ==
    /\ nm_pc = "idle"
    /\ nm_x = <<>>
    /\ nm_y = <<>>
    /\ nm_kx = <<>>
    /\ nm_ky = <<>>
    /\ nm_kkx = <<>>

(***************************************************************************)
(* fetch_with_retry on its own: every url, every max_retries               *)
(***************************************************************************)
InitRetry ==
    /\ MainIdle
    /\ NmIdle
    /\ fw_pc = "loop"
    /\ fw_url \in Urls
    /\ max_retries \in 0..MaxRetriesBound
    /\ attempt = 0
    /\ response = NoResponse
    /\ fw_exc = None
    /\ fw_log = <<>>

SpecRetry == InitRetry /\ [][FwNext]_vars

(***************************************************************************)
(* normalize_name on its own: a name, a second name that differs from it   *)
(* only in letter case, only in diacritics or only in the amount or kind   *)
(* of whitespace, and their keys                                           *)
(***************************************************************************)
NormAlphabet == {"a", "A", "b", "a^", "A^", "^", " ", "~"}
Names == SeqsUpTo(NormAlphabet, MaxNameLen)

InsertAt(s, p, c) == SubSeq(s, 1, p) \o <<c>> \o SubSeq(s, p + 1, Len(s))

\* the same letter in the other case
CaseVariant(c, d) ==
    <<c, d>> \in {<<"a", "A">>, <<"A", "a">>, <<"a^", "A^">>, <<"A^", "a^">>}

\* the same letter with or without its accent
AccentVariant(c, d) ==
    <<c, d>> \in {<<"a", "a^">>, <<"a^", "a">>, <<"A", "A^">>, <<"A^", "A">>}

InitNorm ==
    /\ MainIdle
    /\ FwIdle
    /\ nm_pc = "input"
    /\ nm_x \in Names
    /\ nm_y = nm_x
    /\ nm_kx = <<>>
    /\ nm_ky = <<>>
    /\ nm_kkx = <<>>

VaryCase ==
    /\ nm_pc = "input"
    /\ \E i \in 1..Len(nm_x), d \in NormAlphabet :
          /\ CaseVariant(nm_x[i], d)
          /\ nm_y' = [nm_x EXCEPT ![i] = d]
    /\ nm_pc' = "varied"
    /\ UNCHANGED <<nm_x, nm_kx, nm_ky, nm_kkx, mainVars, fwVars>>

VaryAccent ==
    /\ nm_pc = "input"
    /\ \/ \E i \in 1..Len(nm_x), d \in NormAlphabet :
             /\ AccentVariant(nm_x[i], d)
             /\ nm_y' = [nm_x EXCEPT ![i] = d]
       \/ \E p \in 0..Len(nm_x) : nm_y' = InsertAt(nm_x, p, "^")
    /\ nm_pc' = "varied"
    /\ UNCHANGED <<nm_x, nm_kx, nm_ky, nm_kkx, mainVars, fwVars>>

VaryWhitespace ==
    /\ nm_pc = "input"
    /\ \/ \E p \in 0..Len(nm_x), w \in {" ", "~"} :
             /\ \/ p = 0
                \/ p = Len(nm_x)
                \/ (p > 0 /\ IsSpace(nm_x[p]))
                \/ (p < Len(nm_x) /\ IsSpace(nm_x[p + 1]))
             /\ nm_y' = InsertAt(nm_x, p, w)
       \/ \E i \in 1..Len(nm_x), w \in {" ", "~"} :
             /\ IsSpace(nm_x[i])
             /\ nm_y' = [nm_x EXCEPT ![i] = w]
    /\ nm_pc' = "varied"
    /\ UNCHANGED <<nm_x, nm_kx, nm_ky, nm_kkx, mainVars, fwVars>>

NormalizeNames ==
    /\ nm_pc \in {"input", "varied"}
    /\ nm_kx' = normalize_name(nm_x)
    /\ nm_ky' = normalize_name(nm_y)
    /\ nm_kkx' = normalize_name(normalize_name(nm_x))
    /\ nm_pc' = "done"
    /\ UNCHANGED <<nm_x, nm_y, mainVars, fwVars>>

NextNorm == VaryCase \/ VaryAccent \/ VaryWhitespace \/ NormalizeNames

SpecNorm == InitNorm /\ [][NextNorm]_vars

\* C9: normalize_name is idempotent, and two names that differ only in letter
\* case, only in diacritics or only in leading, trailing or repeated inner
\* whitespace get the same key.
C9_NormalizeIdempotentInsensitive ==
    nm_pc = "done" => (nm_kkx = nm_kx /\ nm_ky = nm_kx)

\* a two-token name whose variant differs from it and whose key differs from both
C9_Witness ==
    /\ nm_pc = "done"
    /\ nm_y # nm_x
    /\ nm_kx # <<>>
    /\ nm_kx # nm_x
    /\ nm_kx # nm_y
    /\ Len(Split(nm_kx)) = 2

(***************************************************************************)
(* fetch_quanthockey_stats: the table rows of a page to player dicts       *)
(***************************************************************************)
\* str.isdigit() of a cell text
IsDigitText(t) == t \in {"0", "1", "2"}

\* int(text) if text and text.isdigit() else 0
CellInt(t) ==
    IF t # "" /\ IsDigitText(t)
    THEN (CASE t = "0" -> 0 [] t = "1" -> 1 [] OTHER -> 2)
    ELSE 0

PlayerDict(n, g, a) == [name |-> n, goals |-> g, assists |-> a, points |-> g + a]

\* a parser without the "if points > 0" filter
RECURSIVE ParsePlayersKeepZero(_)
ParsePlayersKeepZero(rows) ==
    IF rows = <<>> THEN <<>>
    ELSE LET row == Head(rows)
             goals == CellInt(row.goals_text)
             assists == CellInt(row.assists_text)
         IN  IF row.name = <<>> THEN ParsePlayersKeepZero(Tail(rows))
             ELSE <<PlayerDict(row.name, goals, assists)>> \o ParsePlayersKeepZero(Tail(rows))

\* the rows of the stats table, in order: no name or no points, no record
RECURSIVE ParsePlayers(_)
ParsePlayers(rows) ==
    IF rows = <<>> THEN <<>>
    ELSE LET row == Head(rows)
             goals == CellInt(row.goals_text)
             assists == CellInt(row.assists_text)
         IN  IF row.name = <<>> THEN ParsePlayers(Tail(rows))
             ELSE IF goals + assists > 0
                  THEN <<PlayerDict(row.name, goals, assists)>> \o ParsePlayers(Tail(rows))
                  ELSE ParsePlayers(Tail(rows))

(***************************************************************************)
(* main, step 1: the merge into all_player_stats                           *)
(***************************************************************************)
HasKey(stats, k) == \E i \in 1..Len(stats) : stats[i].key = k
IndexOfKey(stats, k) == CHOOSE i \in 1..Len(stats) : stats[i].key = k

\* a merge that overwrites a recurring key instead of adding to it
MergePlayerOverwrite(stats, player) ==
    LET name_key == normalize_name(player.name)
    IN  IF ~HasKey(stats, name_key)
        THEN Append(stats, [key |-> name_key, name |-> player.name,
                            goals |-> player.goals, assists |-> player.assists])
        ELSE LET i == IndexOfKey(stats, name_key)
             IN  [stats EXCEPT ![i].goals = player.goals,
                               ![i].assists = player.assists]

\* the body of "for player in players"
MergePlayer(stats, player) ==
    LET name_key == normalize_name(player.name)
    IN  IF ~HasKey(stats, name_key)
        THEN Append(stats, [key |-> name_key, name |-> player.name,
                            goals |-> player.goals, assists |-> player.assists])
        ELSE LET i == IndexOfKey(stats, name_key)
             IN  [stats EXCEPT ![i].goals = @ + player.goals,
                               ![i].assists = @ + player.assists]

RECURSIVE MergePlayers(_, _)
MergePlayers(stats, players) ==
    IF players = <<>> THEN stats
    ELSE MergePlayers(MergePlayer(stats, Head(players)), Tail(players))

\* the nation loop moves on; after the last nation main calls fetch_nhl_rosters
AfterCountry ==
    /\ country_idx' = country_idx + 1
    /\ pc' = IF country_idx = Len(olympic_countries) THEN "rosters" ELSE "collect"

\* for country in olympic_countries: fetch_quanthockey_stats calls fetch_with_retry
CollectCall ==
    /\ pc = "collect"
    /\ fw_pc = "idle"
    /\ country_idx <= Len(olympic_countries)
    /\ FwEnter(olympic_countries[country_idx], QuanthockeyRetries)
    /\ UNCHANGED <<mainVars, nmVars>>

\* fetch_with_retry returned: the page is parsed and its players are merged
CollectReturn ==
    /\ pc = "collect"
    /\ fw_pc = "returned"
    /\ IF response.kind = "none"
       THEN \* response.text on None: AttributeError outside the try block
            /\ pc' = "crashed"
            /\ UNCHANGED <<country_idx, all_player_stats, nation_result>>
       ELSE LET players == ParsePlayers(response.rows)
            IN  /\ all_player_stats' = MergePlayers(all_player_stats, players)
                /\ nation_result' = Append(nation_result,
                       [country |-> olympic_countries[country_idx], failed |-> FALSE,
                        rows |-> Len(response.rows), players |-> players])
                /\ AfterCountry
    /\ FwLeave
    /\ UNCHANGED <<team_idx, player_to_team, roster_result, stats_idx, nhl_team_stats,
                   unmatched_players, sorted_teams, html, nmVars>>

\* what a failed nation fetch hands to main: return []
FailedFetchPlayers == <<>>

\* a handler that lets the failure leave fetch_quanthockey_stats and main
CollectFailAborts ==
    /\ pc = "collect"
    /\ fw_pc = "raised"
    /\ pc' = "crashed"
    /\ FwLeave
    /\ UNCHANGED <<country_idx, all_player_stats, nation_result, team_idx, player_to_team,
                   roster_result, stats_idx, nhl_team_stats, unmatched_players, sorted_teams,
                   html, nmVars>>

\* fetch_with_retry raised: except Exception: return []
CollectFail ==
    /\ pc = "collect"
    /\ fw_pc = "raised"
    /\ LET players == FailedFetchPlayers
       IN  /\ all_player_stats' = MergePlayers(all_player_stats, players)
           /\ nation_result' = Append(nation_result,
                  [country |-> olympic_countries[country_idx], failed |-> TRUE,
                   rows |-> 0, players |-> players])
           /\ AfterCountry
    /\ FwLeave
    /\ UNCHANGED <<team_idx, player_to_team, roster_result, stats_idx, nhl_team_stats,
                   unmatched_players, sorted_teams, html, nmVars>>

(***************************************************************************)
(* fetch_nhl_rosters                                                       *)
(***************************************************************************)
EmptyDict == [k \in {} |-> None]
DictGet(d, k) == IF k \in DOMAIN d THEN d[k] ELSE None
\* a dict whose first write for a key wins
DictPutFirstWins(d, k, v) == [x \in DOMAIN d \cup {k} |-> IF x \in DOMAIN d THEN d[x] ELSE v]

\* d[k] = v
DictPut(d, k, v) == [x \in DOMAIN d \cup {k} |-> IF x = k THEN v ELSE d[x]]

\* for position_group in ['forwards', 'defensemen', 'goalies']: for player in ...
RosterPlayers(roster) == roster.forwards \o roster.defensemen \o roster.goalies

RECURSIVE AddRoster(_, _, _)
AddRoster(d, players, team_abbrev) ==
    IF players = <<>> THEN d
    ELSE LET player == Head(players)
             first_name == player.firstName
             last_name == player.lastName
         IN  IF first_name # <<>> /\ last_name # <<>>
             THEN AddRoster(DictPut(d, normalize_name(first_name \o <<" ">> \o last_name),
                                    team_abbrev),
                            Tail(players), team_abbrev)
             ELSE AddRoster(d, Tail(players), team_abbrev)

\* the team loop moves on; after the last team fetch_nhl_rosters returns to main
AfterTeam ==
    /\ team_idx' = team_idx + 1
    /\ pc' = IF team_idx = Len(NHL_TEAMS) THEN "aggregate" ELSE "rosters"

\* except requests.RequestException
RosterCatches(e) == e = "RequestException"

RosterCall ==
    /\ pc = "rosters"
    /\ fw_pc = "idle"
    /\ team_idx <= Len(NHL_TEAMS)
    /\ FwEnter(NHL_TEAMS[team_idx], RosterRetries)
    /\ UNCHANGED <<mainVars, nmVars>>

\* fetch_with_retry returned: the roster's players are entered
RosterReturn ==
    /\ pc = "rosters"
    /\ fw_pc = "returned"
    /\ IF response.kind = "none"
       THEN \* response.json() on None: AttributeError, not a RequestException
            /\ pc' = "crashed"
            /\ UNCHANGED <<team_idx, player_to_team, roster_result>>
       ELSE /\ player_to_team' = AddRoster(player_to_team, RosterPlayers(response),
                                           NHL_TEAMS[team_idx])
            /\ roster_result' = Append(roster_result,
                   [team |-> NHL_TEAMS[team_idx], failed |-> FALSE, exc |-> None,
                    keys |-> DOMAIN AddRoster(EmptyDict, RosterPlayers(response),
                                              NHL_TEAMS[team_idx])])
            /\ AfterTeam
    /\ FwLeave
    /\ UNCHANGED <<country_idx, all_player_stats, nation_result, stats_idx, nhl_team_stats,
                   unmatched_players, sorted_teams, html, nmVars>>

\* fetch_with_retry raised: caught and skipped, or it leaves fetch_nhl_rosters and main
RosterFail ==
    /\ pc = "rosters"
    /\ fw_pc = "raised"
    /\ roster_result' = Append(roster_result,
           [team |-> NHL_TEAMS[team_idx], failed |-> TRUE, exc |-> fw_exc, keys |-> {}])
    /\ IF RosterCatches(fw_exc)
       THEN AfterTeam
       ELSE pc' = "crashed" /\ UNCHANGED team_idx
    /\ FwLeave
    /\ UNCHANGED <<country_idx, all_player_stats, nation_result, player_to_team, stats_idx,
                   nhl_team_stats, unmatched_players, sorted_teams, html, nmVars>>

(***************************************************************************)
(* main, step 3: the aggregation loop                                      *)
(***************************************************************************)
HasTeam(ts, t) == \E i \in 1..Len(ts) : ts[i].team = t
IndexOfTeam(ts, t) == CHOOSE i \in 1..Len(ts) : ts[i].team = t

\* nhl_team_stats[nhl_team]: the defaultdict creates the entry on first use
TouchTeam(ts, t) ==
    IF HasTeam(ts, t) THEN ts
    ELSE Append(ts, [team |-> t, points |-> 0, goals |-> 0, assists |-> 0, players |-> <<>>])

\* a matched branch that counts only the goals into the points
AddToTeamGoalsOnly(ts, nhl_team, stats) ==
    LET ts1 == TouchTeam(ts, nhl_team)
        i == IndexOfTeam(ts1, nhl_team)
    IN  [ts1 EXCEPT ![i].points = @ + stats.goals,
                    ![i].goals = @ + stats.goals,
                    ![i].assists = @ + stats.assists,
                    ![i].players = Append(@, PlayerDict(stats.name, stats.goals, stats.assists))]

\* a matched branch that assigns the totals instead of adding to them
AddToTeamOverwrite(ts, nhl_team, stats) ==
    LET points == stats.goals + stats.assists
        ts1 == TouchTeam(ts, nhl_team)
        i == IndexOfTeam(ts1, nhl_team)
    IN  [ts1 EXCEPT ![i].points = points,
                    ![i].goals = stats.goals,
                    ![i].assists = stats.assists,
                    ![i].players = Append(@, [name |-> stats.name, goals |-> stats.goals,
                                              assists |-> stats.assists, points |-> points])]

\* the matched branch: the franchise's totals grow and the player is appended
AddToTeam(ts, nhl_team, stats) ==
    LET points == stats.goals + stats.assists
        ts1 == TouchTeam(ts, nhl_team)
        i == IndexOfTeam(ts1, nhl_team)
    IN  [ts1 EXCEPT ![i].points = @ + points,
                    ![i].goals = @ + stats.goals,
                    ![i].assists = @ + stats.assists,
                    ![i].players = Append(@, [name |-> stats.name, goals |-> stats.goals,
                                              assists |-> stats.assists, points |-> points])]

\* an unmatched branch that only counts the first unmatched player
AddUnmatchedFirstOnly(um, stats) ==
    IF um = <<>>
    THEN <<[name |-> stats.name, goals |-> stats.goals, assists |-> stats.assists]>>
    ELSE um

\* the unmatched branch
AddUnmatched(um, stats) ==
    Append(um, [name |-> stats.name, goals |-> stats.goals, assists |-> stats.assists])

\* one iteration of "for normalized_name, stats in all_player_stats.items()"
AggregateStep ==
    /\ pc = "aggregate"
    /\ stats_idx <= Len(all_player_stats)
    /\ LET stats == all_player_stats[stats_idx]
           nhl_team == DictGet(player_to_team, stats.key)
       IN  IF nhl_team # None
           THEN /\ nhl_team_stats' = AddToTeam(nhl_team_stats, nhl_team, stats)
                /\ UNCHANGED unmatched_players
           ELSE /\ unmatched_players' = AddUnmatched(unmatched_players, stats)
                /\ UNCHANGED nhl_team_stats
    /\ stats_idx' = stats_idx + 1
    /\ UNCHANGED <<pc, country_idx, all_player_stats, nation_result, team_idx, player_to_team,
                   roster_result, sorted_teams, html, fwVars, nmVars>>

(***************************************************************************)
(* main, step 4: the ranking; generate_html                                *)
(***************************************************************************)
\* a sort key that leaves the goals out
SortKeyLessPointsOnly(a, b) == a.points < b.points

\* key = (points, goals): tuple comparison
SortKeyLess(a, b) ==
    \/ a.points < b.points
    \/ (a.points = b.points /\ a.goals < b.goals)

\* a descending sort that reverses equal elements (sort ascending, then reverse):
\* an element goes in front of every element whose key is not greater than its own
RECURSIVE InsertDescReversingTies(_, _)
InsertDescReversingTies(s, x) ==
    IF s = <<>> THEN <<x>>
    ELSE IF ~SortKeyLess(x, Head(s)) THEN <<x>> \o s
    ELSE <<Head(s)>> \o InsertDescReversingTies(Tail(s), x)

\* sorted(..., reverse=True) is stable: an element goes behind every element
\* whose key is not smaller than its own
RECURSIVE InsertDesc(_, _)
InsertDesc(s, x) ==
    IF s = <<>> THEN <<x>>
    ELSE IF SortKeyLess(Head(s), x) THEN <<x>> \o s
    ELSE <<Head(s)>> \o InsertDesc(Tail(s), x)

RECURSIVE SortedDescFrom(_, _)
SortedDescFrom(acc, s) ==
    IF s = <<>> THEN acc ELSE SortedDescFrom(InsertDesc(acc, Head(s)), Tail(s))

SortedDesc(s) == SortedDescFrom(<<>>, s)

\* the aggregation loop is over: sorted_teams = sorted(nhl_team_stats.items(), ...)
SortTeams ==
    /\ pc = "aggregate"
    /\ stats_idx > Len(all_player_stats)
    /\ sorted_teams' = SortedDesc(nhl_team_stats)
    /\ pc' = "report"
    /\ UNCHANGED <<country_idx, all_player_stats, nation_result, team_idx, player_to_team,
                   roster_result, stats_idx, nhl_team_stats, unmatched_players, html,
                   fwVars, nmVars>>

\* one table row and its accordion of player cards
HtmlRow(item) ==
    [team |-> item.team, points |-> item.points, goals |-> item.goals,
     assists |-> item.assists, players |-> Len(item.players),
     cards |-> SortedDesc(item.players)]

\* a report that sorts each stored players list in place (list.sort); the stats
\* dict of a ranked item is the object held by nhl_team_stats
SortPlayersInPlace(ts) == [i \in 1..Len(ts) |-> [ts[i] EXCEPT !.players = SortedDesc(@)]]

GenerateHtmlSortsInPlace ==
    /\ pc = "report"
    /\ html' = [i \in 1..Len(sorted_teams) |-> HtmlRow(sorted_teams[i])]
    /\ sorted_teams' = SortPlayersInPlace(sorted_teams)
    /\ nhl_team_stats' = SortPlayersInPlace(nhl_team_stats)
    /\ pc' = "done"
    /\ UNCHANGED <<country_idx, all_player_stats, nation_result, team_idx, player_to_team,
                   roster_result, stats_idx, unmatched_players, fwVars, nmVars>>

\* generate_html(sorted_teams, ...): the file is written and main returns
GenerateHtml ==
    /\ pc = "report"
    /\ html' = [i \in 1..Len(sorted_teams) |-> HtmlRow(sorted_teams[i])]
    /\ pc' = "done"
    /\ UNCHANGED <<country_idx, all_player_stats, nation_result, team_idx, player_to_team,
                   roster_result, stats_idx, nhl_team_stats, unmatched_players, sorted_teams,
                   fwVars, nmVars>>

(***************************************************************************)
(* The run of main()                                                       *)
(***************************************************************************)
Init ==
    /\ pc = "collect"
    /\ country_idx = 1
    /\ all_player_stats = <<>>
    /\ nation_result = <<>>
    /\ team_idx = 1
    /\ player_to_team = EmptyDict
    /\ roster_result = <<>>
    /\ stats_idx = 1
    /\ nhl_team_stats = <<>>
    /\ unmatched_players = <<>>
    /\ sorted_teams = <<>>
    /\ html = <<>>
    /\ FwIdle
    /\ NmIdle

Next ==
    \/ CollectCall
    \/ CollectReturn
    \/ CollectFail
    \/ RosterCall
    \/ RosterReturn
    \/ RosterFail
    \/ FwLoop
    \/ FwRequestOk
    \/ FwRequestFail
    \/ FwSleep
    \/ AggregateStep
    \/ SortTeams
    \/ GenerateHtml

Spec == Init /\ [][Next]_vars

\* the interpreter runs the program to its end
FairSpec == Spec /\ WF_vars(Next)

(***************************************************************************)
(* Properties                                                              *)
(***************************************************************************)
RECURSIVE SumSeq(_)
SumSeq(s) == IF s = <<>> THEN 0 ELSE Head(s) + SumSeq(Tail(s))

RECURSIVE Concat(_)
Concat(ss) == IF ss = <<>> THEN <<>> ELSE Head(ss) \o Concat(Tail(ss))

Count(s, P(_)) == Cardinality({j \in 1..Len(s) : P(s[j])})

AggregationOver ==
    \/ pc \in {"report", "done"}
    \/ (pc = "aggregate" /\ stats_idx > Len(all_player_stats))

\* how often a source record stands in the franchises' players lists
TimesMatched(e) ==
    SumSeq([t \in 1..Len(nhl_team_stats) |->
              Count(nhl_team_stats[t].players,
                    LAMBDA p : p.name = e.name /\ p.goals = e.goals /\ p.assists = e.assists)])

\* how often a source record stands in the unmatched list
TimesUnmatched(e) ==
    Count(unmatched_players,
          LAMBDA p : p.name = e.name /\ p.goals = e.goals /\ p.assists = e.assists)

MatchedCount == SumSeq([t \in 1..Len(nhl_team_stats) |-> Len(nhl_team_stats[t].players)])

\* C1: every source record the aggregation loop has passed stands exactly once in
\* exactly one place, a franchise's players list or the unmatched list, and no
\* other record stands anywhere; when the loop is over the matched and the
\* unmatched players together are as many as the SourceStatsMap has entries.
C1_EveryRecordClassifiedOnce ==
    /\ \A i \in 1..Len(all_player_stats) :
          TimesMatched(all_player_stats[i]) + TimesUnmatched(all_player_stats[i])
             = IF i < stats_idx THEN 1 ELSE 0
    /\ AggregationOver =>
          MatchedCount + Len(unmatched_players) = Len(all_player_stats)

C1_Witness ==
    /\ pc = "done"
    /\ Len(unmatched_players) >= 2
    /\ \E t \in 1..Len(nhl_team_stats) : Len(nhl_team_stats[t].players) >= 2

\* C2: at every step, each franchise aggregate's points, goals and assists are
\* the sums of goals + assists, of the goals and of the assists of its players.
C2_TeamTotalsAreSums ==
    \A t \in 1..Len(nhl_team_stats) :
       LET a == nhl_team_stats[t]
           ps == a.players
       IN  /\ a.points = SumSeq([j \in 1..Len(ps) |-> ps[j].goals + ps[j].assists])
           /\ a.goals = SumSeq([j \in 1..Len(ps) |-> ps[j].goals])
           /\ a.assists = SumSeq([j \in 1..Len(ps) |-> ps[j].assists])

\* inside the loop, a franchise with two players of which one has assists
C2_Witness ==
    /\ pc = "aggregate"
    /\ stats_idx <= Len(all_player_stats)
    /\ \E t \in 1..Len(nhl_team_stats) :
          /\ Len(nhl_team_stats[t].players) >= 2
          /\ nhl_team_stats[t].assists >= 1

\* C3: the ranked sequence is non-increasing by (points, goals), compared
\* lexicographically, and holds exactly the franchise aggregates, each once.
C3_RankingSortedAndComplete ==
    pc \in {"report", "done"} =>
       /\ \A i \in 1..(Len(sorted_teams) - 1) :
             \/ sorted_teams[i].points > sorted_teams[i + 1].points
             \/ /\ sorted_teams[i].points = sorted_teams[i + 1].points
                /\ sorted_teams[i].goals >= sorted_teams[i + 1].goals
       /\ Len(sorted_teams) = Len(nhl_team_stats)
       /\ \A t \in 1..Len(nhl_team_stats) :
             Cardinality({j \in 1..Len(sorted_teams) : sorted_teams[j] = nhl_team_stats[t]}) = 1

\* three franchises ranked, not in creation order, two of them level on points
C3_Witness ==
    /\ pc = "done"
    /\ Len(sorted_teams) = 3
    /\ sorted_teams # nhl_team_stats
    /\ \E i \in 1..2 :
          /\ sorted_teams[i].points = sorted_teams[i + 1].points
          /\ sorted_teams[i].goals > sorted_teams[i + 1].goals

\* the records the nations' fetches returned so far, in order
FetchedRecords == Concat([i \in 1..Len(nation_result) |-> nation_result[i].players])

\* the NormalizedKey of each fetched record
FetchedKeys == [j \in 1..Len(FetchedRecords) |-> normalize_name(FetchedRecords[j].name)]

\* the nations in which key k was listed
NationsListing(k) ==
    {i \in 1..Len(nation_result) :
        \E j \in 1..Len(nation_result[i].players) :
           normalize_name(nation_result[i].players[j].name) = k}

RECURSIVE SumOver(_, _)
SumOver(S, f) ==
    IF S = {} THEN 0
    ELSE LET j == CHOOSE x \in S : TRUE IN f[j] + SumOver(S \ {j}, f)

\* the nation loop is running or has just ended (all_player_stats is not written later)
Collecting == pc = "collect" \/ (pc = "rosters" /\ team_idx = 1 /\ fw_pc = "idle")

\* C4: after each nation and when the nation loop is over, the merged
\* SourceStatsMap holds one entry for each NormalizedKey the fetches returned
\* and no other; the entry's goals and assists are the sums of the goals and of
\* the assists of all occurrences of the key, within one nation or across
\* nations (its own values when it occurs once).
C4_MergeSumsCollisions ==
    Collecting =>
    LET recs == FetchedRecords
        keys == FetchedKeys
    IN  /\ \A j \in 1..Len(recs) :
              Cardinality({i \in 1..Len(all_player_stats) : all_player_stats[i].key = keys[j]}) = 1
        /\ \A i \in 1..Len(all_player_stats) :
              LET e == all_player_stats[i]
                  occ == {j \in 1..Len(recs) : keys[j] = e.key}
              IN  /\ occ # {}
                  /\ e.goals = SumOver(occ, [j \in 1..Len(recs) |-> recs[j].goals])
                  /\ e.assists = SumOver(occ, [j \in 1..Len(recs) |-> recs[j].assists])

\* one key listed twice by one nation and again by the other, another key listed once
C4_Witness ==
    /\ pc = "rosters"
    /\ \E i \in 1..Len(all_player_stats) :
          /\ Cardinality({j \in 1..Len(FetchedRecords) : FetchedKeys[j] = all_player_stats[i].key}) = 3
          /\ Cardinality(NationsListing(all_player_stats[i].key)) = 2
          /\ all_player_stats[i].goals >= 3
    /\ \E i \in 1..Len(all_player_stats) :
          Cardinality({j \in 1..Len(FetchedRecords) : FetchedKeys[j] = all_player_stats[i].key}) = 1

RequestIdx == {j \in 1..Len(fw_log) : fw_log[j].ev = "request"}
SleepIdx == {j \in 1..Len(fw_log) : fw_log[j].ev = "sleep"}

\* C5: a call with max_retries = n issues at most n requests; the k-th failed
\* request with k < n is followed by one wait of k * BaseDelay seconds and then
\* the next request; the n-th failed request is followed by no wait and the
\* failure is raised.
C5_BoundedLinearBackoff ==
    /\ Cardinality(RequestIdx) <= max_retries
    /\ \A j \in 1..Len(fw_log) :
          fw_log[j].ev = IF j % 2 = 1 THEN "request" ELSE "sleep"
    /\ \A k \in 1..Cardinality(SleepIdx) :
          /\ k < max_retries
          /\ fw_log[2 * k].secs = k * BaseDelay
    /\ fw_pc = "raised" =>
          /\ max_retries >= 1
          /\ Cardinality(RequestIdx) = max_retries
          /\ Cardinality(SleepIdx) = max_retries - 1
          /\ fw_exc \in ExcKinds
    /\ fw_pc = "sleep" => Cardinality(RequestIdx) < max_retries

\* three requests failed, waits of 2 and 4 seconds between them, then the failure
C5_Witness ==
    /\ fw_pc = "raised"
    /\ max_retries = 3
    /\ Len(fw_log) = 5
    /\ fw_log[2].secs = 2
    /\ fw_log[4].secs = 4

\* the records of the nations whose fetch succeeded, in order
SucceededRecords ==
    Concat([i \in 1..Len(nation_result) |->
              IF nation_result[i].failed THEN <<>> ELSE nation_result[i].players])

\* C6: a nation whose fetch fails on all attempts yields the empty list and the
\* collector goes on: a failure never ends the run inside the nation loop, every
\* nation before the current one has its result, and after each nation and when
\* the loop is over the merged SourceStatsMap is the merge of the records of
\* exactly the nations whose fetch succeeded.
C6_FailedNationYieldsEmptyAndContinues ==
    /\ \A i \in 1..Len(nation_result) :
          /\ nation_result[i].country = olympic_countries[i]
          /\ nation_result[i].failed => nation_result[i].players = <<>>
    /\ Len(nation_result) = country_idx - 1
    /\ pc # "collect" => Len(nation_result) = Len(olympic_countries)
    /\ Collecting => all_player_stats = MergePlayers(<<>>, SucceededRecords)

\* the first nation failed, the second one delivered, and the run went on to its end
C6_Witness ==
    /\ pc = "done"
    /\ nation_result[1].failed
    /\ ~nation_result[2].failed
    /\ all_player_stats # <<>>

Unmatched(e) == TimesUnmatched(e) = 1 /\ TimesMatched(e) = 0

\* C7: when a franchise's roster fetch fails, for whatever exception
\* fetch_with_retry propagates, fetch_nhl_rosters goes on with the remaining
\* franchises and returns the RosterMap; the failed franchise has no entry in
\* it, and a scorer with no entry in the RosterMap ends up unmatched.
C7_RosterFailureIsSkipped ==
    \A j \in 1..Len(roster_result) :
       roster_result[j].failed =>
          /\ pc # "crashed"
          /\ pc \in {"aggregate", "report", "done"} =>
                /\ Len(roster_result) = Len(NHL_TEAMS)
                /\ \A k \in DOMAIN player_to_team : player_to_team[k] # roster_result[j].team
          /\ AggregationOver =>
                \A i \in 1..Len(all_player_stats) :
                   all_player_stats[i].key \notin DOMAIN player_to_team
                      => Unmatched(all_player_stats[i])

\* C8: whatever fetches fail, main() runs to its end: it is never ended by an
\* exception, every call of fetch_with_retry stays within its max_retries
\* requests, and at the end the ranking and the report have been produced.
C8_RunCompletesWithReport ==
    /\ pc # "crashed"
    /\ Cardinality(RequestIdx) <= max_retries
    /\ pc = "done" =>
          /\ Len(nation_result) = Len(olympic_countries)
          /\ Len(roster_result) = Len(NHL_TEAMS)
          /\ stats_idx = Len(all_player_stats) + 1
          /\ Len(html) = Len(sorted_teams)

\* the name's tokens, letter case and diacritics apart
TokensOf(name) == Split(LowerStr(StripMn(NFD(name))))

Reverse(s) == [i \in 1..Len(s) |-> s[Len(s) + 1 - i]]

\* the full names the rosters may list
RosterNames ==
    {p.firstName \o <<" ">> \o p.lastName :
        p \in UNION {{RosterPlayers(d)[i] : i \in 1..Len(RosterPlayers(d))} :
                       d \in UNION {RosterPool(NHL_TEAMS[t]) : t \in 1..Len(NHL_TEAMS)}}}

C13_CollectedRecordsHavePositivePoints ==
    /\ \A i \in 1..Len(nation_result) :
          LET players == nation_result[i].players
          IN  /\ Len(players) <= nation_result[i].rows
              /\ \A j \in 1..Len(players) :
                    /\ players[j].goals >= 0
                    /\ players[j].assists >= 0
                    /\ players[j].points = players[j].goals + players[j].assists
                    /\ players[j].points > 0
    /\ \A k \in 1..Len(all_player_stats) :
          /\ all_player_stats[k].goals >= 0
          /\ all_player_stats[k].assists >= 0
          /\ all_player_stats[k].goals + all_player_stats[k].assists >= 1

\* a page of two rows gave one record: the row without points was dropped and
\* the kept record's non-numeric goals cell counts as 0
C13_Witness ==
    /\ Len(nation_result) >= 1
    /\ ~nation_result[1].failed
    /\ nation_result[1].rows = 2
    /\ Len(nation_result[1].players) = 1
    /\ nation_result[1].players[1].goals = 0
    /\ Len(all_player_stats) >= 1

\* the roster fetches so far that succeeded and entered the key k
WritersOf(k) == {i \in 1..Len(roster_result) : ~roster_result[i].failed /\ k \in roster_result[i].keys}

\* the franchise of the last of them
LastWriter(k) == roster_result[CHOOSE i \in WritersOf(k) : \A j \in WritersOf(k) : j <= i].team

(***************************************************************************)
(* C14: the rosters are processed in NHL_TEAMS order; player_to_team holds *)
(* exactly the names the successfully processed rosters entered, each      *)
(* mapped to the franchise of the last roster that entered it; and every   *)
(* source record the aggregation loop has passed whose key is in           *)
(* player_to_team stands once in that franchise's players list and in no   *)
(* other franchise's.                                                      *)
(***************************************************************************)
C14_RosterMapLastWriteWins ==
    /\ \A i \in 1..Len(roster_result) : roster_result[i].team = NHL_TEAMS[i]
    /\ DOMAIN player_to_team = UNION {roster_result[i].keys : i \in 1..Len(roster_result)}
    /\ \A k \in DOMAIN player_to_team : player_to_team[k] = LastWriter(k)
    /\ \A i \in 1..Len(all_player_stats) :
          (i < stats_idx /\ all_player_stats[i].key \in DOMAIN player_to_team) =>
             \A t \in 1..Len(nhl_team_stats) :
                Count(nhl_team_stats[t].players, LAMBDA p : p.name = all_player_stats[i].name)
                   = IF nhl_team_stats[t].team = LastWriter(all_player_stats[i].key)
                     THEN 1 ELSE 0

\* a name on the rosters of ANA and of BOS, both fetched, whose scorer is in the
\* players list of BOS
C14_Witness ==
    /\ pc = "done"
    /\ Len(roster_result) >= 2
    /\ \E i \in 1..Len(all_player_stats) :
          /\ all_player_stats[i].key \in roster_result[1].keys \cap roster_result[2].keys
          /\ \E t \in 1..Len(nhl_team_stats) :
                /\ nhl_team_stats[t].team = NHL_TEAMS[2]
                /\ \E j \in 1..Len(nhl_team_stats[t].players) :
                      nhl_team_stats[t].players[j].name = all_player_stats[i].name

\* s holds the elements of t, each as often as t does
IsPermutationOf(s, t) ==
    /\ Len(s) = Len(t)
    /\ \A i \in 1..Len(t) :
          Cardinality({j \in 1..Len(s) : s[j] = t[i]}) = Cardinality({j \in 1..Len(t) : t[j] = t[i]})

\* no element is followed by one with a greater (points, goals)
NonIncreasing(s) == \A a, b \in 1..Len(s) : a < b => ~SortKeyLess(s[a], s[b])

(***************************************************************************)
(* C15: the step that writes the report emits one row per ranked franchise *)
(* in the order of sorted_teams, with that franchise's points, goals,      *)
(* assists and player count; the cards of a row are the franchise's        *)
(* players sorted non-increasing by (points, goals); and the step leaves   *)
(* sorted_teams and nhl_team_stats, their totals and their players lists,  *)
(* as they were.                                                           *)
(***************************************************************************)
C15_ReportKeepsOrderAndAggregates ==
    [][(pc = "report" /\ pc' = "done") =>
          /\ sorted_teams' = sorted_teams
          /\ nhl_team_stats' = nhl_team_stats
          /\ Len(html') = Len(sorted_teams)
          /\ \A i \in 1..Len(sorted_teams) :
                /\ html'[i].team = sorted_teams[i].team
                /\ html'[i].points = sorted_teams[i].points
                /\ html'[i].goals = sorted_teams[i].goals
                /\ html'[i].assists = sorted_teams[i].assists
                /\ html'[i].players = Len(sorted_teams[i].players)
                /\ IsPermutationOf(html'[i].cards, sorted_teams[i].players)
                /\ NonIncreasing(html'[i].cards)]_vars

\* the report is written for two or more franchises and one franchise's cards
\* stand in another order than its stored players list
C15_Witness ==
    /\ pc = "done"
    /\ Len(html) >= 2
    /\ \E i \in 1..Len(html) : html[i].cards # sorted_teams[i].players

\* a source record the aggregation loop has passed is on franchise t's roster
HasMatchedScorer(t) ==
    \E i \in 1..Len(all_player_stats) :
       i < stats_idx /\ DictGet(player_to_team, all_player_stats[i].key) = t

\* the aggregates that exist are those of the franchises with a matched scorer,
\* each with a player and a point; the ranked franchises likewise
AggregatesHaveScorers ==
    /\ \A t \in 1..Len(nhl_team_stats) :
          /\ HasMatchedScorer(nhl_team_stats[t].team)
          /\ Len(nhl_team_stats[t].players) >= 1
          /\ nhl_team_stats[t].points >= 1
    /\ \A t \in 1..Len(NHL_TEAMS) :
          ~HasMatchedScorer(NHL_TEAMS[t]) => ~HasTeam(nhl_team_stats, NHL_TEAMS[t])
    /\ \A r \in 1..Len(sorted_teams) :
          /\ HasMatchedScorer(sorted_teams[r].team)
          /\ Len(sorted_teams[r].players) >= 1
          /\ sorted_teams[r].points >= 1

\* a step keeps every aggregate, at its place, and lowers none of its numbers
AggregatesGrow ==
    /\ Len(nhl_team_stats') >= Len(nhl_team_stats)
    /\ \A t \in 1..Len(nhl_team_stats) :
          /\ nhl_team_stats'[t].team = nhl_team_stats[t].team
          /\ nhl_team_stats'[t].points >= nhl_team_stats[t].points
          /\ nhl_team_stats'[t].goals >= nhl_team_stats[t].goals
          /\ nhl_team_stats'[t].assists >= nhl_team_stats[t].assists
          /\ Len(nhl_team_stats'[t].players) >= Len(nhl_team_stats[t].players)

(***************************************************************************)
(* C16: at every moment a franchise aggregate exists exactly for the       *)
(* franchises of which the loop has passed a matched scorer, and has a     *)
(* player and points >= 1, as has every ranked franchise; and no step      *)
(* removes an aggregate or lowers its points, goals, assists or player     *)
(* count.                                                                  *)
(***************************************************************************)
C16_AggregatesCreatedOnMatchAndMonotone ==
    []AggregatesHaveScorers /\ [][AggregatesGrow]_vars

\* the run is over: one franchise has two players, and another, whose roster was
\* fetched, has no matched scorer and no aggregate
C16_Witness ==
    /\ pc = "done"
    /\ \E t \in 1..Len(nhl_team_stats) : Len(nhl_team_stats[t].players) >= 2
    /\ \E i \in 1..Len(roster_result) :
          /\ ~roster_result[i].failed
          /\ roster_result[i].keys # {}
          /\ ~HasTeam(nhl_team_stats, roster_result[i].team)

\* the place in all_player_stats of the first entry on franchise t's roster
FirstMatchedIndex(t) ==
    CHOOSE i \in 1..Len(all_player_stats) :
       /\ DictGet(player_to_team, all_player_stats[i].key) = t
       /\ \A j \in 1..(i - 1) : DictGet(player_to_team, all_player_stats[j].key) # t

SameSortKey(a, b) == a.points = b.points /\ a.goals = b.goals

(***************************************************************************)
(* C17: the aggregates stand in nhl_team_stats in the order in which the   *)
(* first matched scorer of each franchise occurs in all_player_stats, and  *)
(* two ranked franchises with equal (points, goals) stand in the ranked    *)
(* sequence in that order.                                                 *)
(***************************************************************************)
C17_TiesKeepCreationOrder ==
    /\ AggregationOver =>
          \A a, b \in 1..Len(nhl_team_stats) :
             a < b => FirstMatchedIndex(nhl_team_stats[a].team)
                         < FirstMatchedIndex(nhl_team_stats[b].team)
    /\ pc \in {"report", "done"} =>
          \A i, j \in 1..Len(sorted_teams) :
             (i < j /\ SameSortKey(sorted_teams[i], sorted_teams[j])) =>
                /\ IndexOfTeam(nhl_team_stats, sorted_teams[i].team)
                      < IndexOfTeam(nhl_team_stats, sorted_teams[j].team)
                /\ FirstMatchedIndex(sorted_teams[i].team)
                      < FirstMatchedIndex(sorted_teams[j].team)

\* BUF and BOS tie and BUF, whose scorer came first, is ranked before BOS
C17_Witness ==
    /\ pc = "done"
    /\ \E i, j \in 1..Len(sorted_teams) :
          /\ i < j
          /\ SameSortKey(sorted_teams[i], sorted_teams[j])
          /\ sorted_teams[i].team = NHL_TEAMS[3]
          /\ sorted_teams[j].team = NHL_TEAMS[2]

\* the aggregation loop run to its end over a SourceStatsMap in a given order
RECURSIVE AggregateAll(_, _, _)
AggregateAll(ts, stats, d) ==
    IF stats = <<>> THEN ts
    ELSE LET nhl_team == DictGet(d, Head(stats).key)
         IN  AggregateAll(IF nhl_team # None THEN AddToTeam(ts, nhl_team, Head(stats)) ELSE ts,
                          Tail(stats), d)

\* the ranked franchise codes a SourceStatsMap yields with the RosterMap d
RankedOrder(stats, d) ==
    LET ranked == SortedDesc(AggregateAll(<<>>, stats, d))
    IN  [i \in 1..Len(ranked) |-> ranked[i].team]

\* the same entries inserted in the order q
Reinserted(stats, q) == [i \in 1..Len(stats) |-> stats[q[i]]]

(***************************************************************************)
(* C12: when the ranking is made, every SourceStatsMap with the entries of *)
(* all_player_stats inserted in another order yields, with the same        *)
(* RosterMap, the ranked franchise order of sorted_teams.                  *)
(***************************************************************************)
C12_RankedOrderIndependentOfSourceOrder ==
    pc \in {"report", "done"} =>
       \A q \in Permutations(1..Len(all_player_stats)) :
          RankedOrder(Reinserted(all_player_stats, q), player_to_team)
             = [i \in 1..Len(sorted_teams) |-> sorted_teams[i].team]

(***************************************************************************)
(* C18: whatever max_retries is, fetch_with_retry ends in one of two ways: *)
(* it returns a response, and the successful request is the last thing it  *)
(* did, or it raises an error; it holds a response only when it returns,   *)
(* and it never returns without one.                                       *)
(***************************************************************************)
C18_ReturnsResponseOrRaises ==
    /\ fw_pc = "returned" =>
          /\ response # NoResponse
          /\ fw_log # <<>>
          /\ fw_log[Len(fw_log)].ev = "request"
    /\ fw_pc = "raised" => fw_exc \in ExcKinds
    /\ response # NoResponse => fw_pc = "returned"

====
